---- MODULE Spec2Model ----
(***************************************************************************)
(* A model of src/src/git/parsers/remoteParser.ts: the blame provider      *)
(* (GitProvider: the per-file blame cache, the blame parser and its        *)
(* aggregation, the range projection, the uri codec) and the remote        *)
(* listing parser (GitRemoteParser).                                       *)
(*                                                                         *)
(* JavaScript runs every callback to completion, so one action is one      *)
(* synchronous call or one promise callback.  A Map is a sequence of its   *)
(* entries in insertion order.  A text is the sequence of its lines; a     *)
(* line either matches the regular expression that scans it (and then      *)
(* carries the captured groups) or does not.                               *)
(***************************************************************************)
EXTENDS Integers, Sequences, FiniteSets, TLC

\* ------------------------------------------------------------------ bounds
\* Longest blame text, in lines.
MaxLines == 3
\* Longest file or author name handed to the uri codec, in characters.
MaxNameLen == 1
\* Longest remote listing, in lines.
MaxRemoteLines == 2
\* Most builds (Git.blame fetches) started in one behaviour.
MaxBuilds == 3

\* ------------------------------------------------------------------- state
VARIABLES
    _blames,               \* GitProvider._blames: key -> promise (0: no entry)
    builds,                \* the promises Git.blame(...).then(...) made, by handle
    subscribed,            \* GitProvider._subscription is live
    blameMatcher,          \* blameMatcher.lastIndex
    commitMessageMatcher,  \* commitMessageMatcher.lastIndex
    lastOp,                \* the last call made and what it returned
    since                  \* per key, the calls made since its entry was last absent
                           \* (calls counts them up to "two or more")

cacheVars ==
    <<_blames, builds, subscribed, blameMatcher, commitMessageMatcher, lastOp, since>>

VARIABLES
    blameText,  \* the blame text under test
    stage,      \* "fetched", "built", then by the last call "projected" or "looked"
    model,      \* the model getBlameForFile built from data
    range,      \* the range last passed to a call that takes one
    projected,  \* what the last call's getBlameForRange returned for it
    lookup      \* what the last call of another projection returned

blameVars == <<blameText, stage, model, range, projected, lookup>>

VARIABLES
    encoded,    \* the last identifier made: its kind, the arguments, the Uri
    decoded     \* what the last fromGitUri / fromBlameUri call did with it

codecVars == <<encoded, decoded>>

VARIABLES
    remoteRegex,  \* remoteRegex.lastIndex
    parsed        \* the last GitRemoteParser.parse call: arguments and outcome

remoteVars == <<remoteRegex, parsed>>

vars == <<cacheVars, blameVars, codecVars, remoteVars>>

\* ------------------------------------------------------------- sequences
Elems(s) == {s[i] : i \in 1..Len(s)}

RECURSIVE SumSeq(_)
SumSeq(s) == IF s = <<>> THEN 0 ELSE Head(s) + SumSeq(Tail(s))

Min(S) == CHOOSE x \in S : \A y \in S : x <= y

\* All sequences over S of length at most n.
SeqsUpTo(S, n) == UNION {[1..k -> S] : k \in 0..n}

\* Array.prototype.filter with the predicate given as the set of kept values.
RECURSIVE SelectIn(_, _)
SelectIn(s, keep) ==
    IF s = <<>> THEN <<>>
    ELSE (IF Head(s) \in keep THEN <<Head(s)>> ELSE <<>>) \o SelectIn(Tail(s), keep)

\* ---------------------------------------------------------------- strings
\* A string is the sequence of its characters.
ToLowerCaseChar(c) == IF c = "A" THEN "a" ELSE IF c = "B" THEN "b" ELSE c

ToLowerCase(s) == [i \in 1..Len(s) |-> ToLowerCaseChar(s[i])]

EndsWith(s, t) == Len(t) <= Len(s) /\ SubSeq(s, Len(s) - Len(t) + 1, Len(s)) = t

RECURSIVE TrimStart(_)
TrimStart(s) == IF s # <<>> /\ Head(s) = " " THEN TrimStart(Tail(s)) ELSE s

RECURSIVE TrimEnd(_)
TrimEnd(s) ==
    IF s # <<>> /\ s[Len(s)] = " " THEN TrimEnd(SubSeq(s, 1, Len(s) - 1)) ELSE s

Trim(s) == TrimEnd(TrimStart(s))

\* ------------------------------------------------- regular expressions (g)
\* A line of a text: match says whether the scanning expression matches the
\* line; width is its length in characters.  Lines are separated by one
\* newline character.
LineStart(text, i) == SumSeq([j \in 1..(i - 1) |-> text[j].width + 1])

LineEnd(text, i) == LineStart(text, i) + text[i].width

TextLength(text) == IF text = <<>> THEN 0 ELSE LineEnd(text, Len(text))

\* A faulty variant of RegExpExec: a failed match leaves lastIndex where it was.
RegExpExecKeepsIndex(text, lastIndex) ==
    LET cands == {i \in 1..Len(text) : text[i].match /\ LineStart(text, i) >= lastIndex}
    IN  IF lastIndex > TextLength(text) \/ cands = {}
        THEN [index |-> 0, lastIndex |-> lastIndex]
        ELSE [index |-> Min(cands), lastIndex |-> LineEnd(text, Min(cands))]

\* RegExp.prototype.exec of a global, multiline expression anchored with ^
\* and $: the search starts at lastIndex, a match can only begin where a line
\* begins, a match leaves lastIndex at its end, and a failure resets lastIndex
\* to 0.  index is the matched line (0: null).
RegExpExec(text, lastIndex) ==
    LET cands == {i \in 1..Len(text) : text[i].match /\ LineStart(text, i) >= lastIndex}
    IN  IF lastIndex > TextLength(text) \/ cands = {}
        THEN [index |-> 0, lastIndex |-> 0]
        ELSE [index |-> Min(cands), lastIndex |-> LineEnd(text, Min(cands))]

\* A faulty variant of SortDescending: equal keys come out in reverse order.
RECURSIVE SortTiesReversed(_, _)
SortTiesReversed(s, key) ==
    IF s = <<>> THEN <<>>
    ELSE LET rest == SortTiesReversed(Tail(s), key)
             before == SelectIn(rest, {x \in Elems(rest) : x[key] >= Head(s)[key]})
             after == SelectIn(rest, {x \in Elems(rest) : x[key] < Head(s)[key]})
         IN  before \o <<Head(s)>> \o after

\* Array.prototype.sort with the comparator (a, b) => b[key] - a[key]:
\* descending, equal keys keep their order.
RECURSIVE InsertDescending(_, _, _)
InsertDescending(sorted, x, key) ==
    IF sorted = <<>> THEN <<x>>
    ELSE IF Head(sorted)[key] >= x[key]
         THEN <<Head(sorted)>> \o InsertDescending(Tail(sorted), x, key)
         ELSE <<x>> \o sorted

RECURSIVE SortDescending(_, _)
SortDescending(s, key) ==
    IF s = <<>> THEN <<>>
    ELSE InsertDescending(SortDescending(SubSeq(s, 1, Len(s) - 1), key), s[Len(s)], key)

\* ------------------------------------------------------------ blame texts
Shas == {"s1", "s2"}

\* The author and date columns a line can carry.
AuthorDates == {<<<<"A">>, 1>>, <<<<"B">>, 1>>, <<<<"B">>, 2>>}

NoMatchLine ==
    [match |-> FALSE, width |-> 0, sha |-> "", file |-> <<>>, originalLine |-> 0,
     author |-> <<>>, date |-> 0, line |-> 0]

\* A line blameMatcher matches, with its groups: m[1] sha, m[2] file,
\* m[3] originalLine, m[4] author, m[5] date, m[6] line.  git blame prints one
\* line per line of the file, numbered from 1, so the i-th line of its output
\* carries the line number i.
BlameLines(i) ==
    {[match |-> TRUE, width |-> 2, sha |-> sha, file |-> <<"a">>, originalLine |-> 1,
      author |-> ad[1], date |-> ad[2], line |-> i] :
        sha \in Shas, ad \in AuthorDates}
    \cup
    {[match |-> TRUE, width |-> 2, sha |-> "s1", file |-> f[1], originalLine |-> 2,
      author |-> f[2], date |-> 1, line |-> i] :
        f \in IF i = 1
              THEN {<<<<"A">>, <<"A">>>>, <<<<"b">>, <<"A">>>>, <<<<"a">>, <<"A", " ">>>>}
              ELSE {}}

\* The outputs of git blame of at most MaxLines lines: each line is matched
\* by blameMatcher or is not.
RECURSIVE BlameTextsOfLength(_)
BlameTextsOfLength(n) ==
    IF n = 0 THEN {<<>>}
    ELSE {Append(t, l) : t \in BlameTextsOfLength(n - 1),
                         l \in BlameLines(n) \cup {NoMatchLine}}

BlameTexts == UNION {BlameTextsOfLength(n) : n \in 0..MaxLines}

\* ----------------------------------------------------- getBlameForFile.then
HasKey(map, field, k) == \E i \in 1..Len(map) : map[i][field] = k

IndexOfKey(map, field, k) == CHOOSE i \in 1..Len(map) : map[i][field] = k

EmptyBlame == [authors |-> <<>>, commits |-> <<>>, lines |-> <<>>]

\* One iteration of the scan loop, for the match m.
ScanStep(st, fileName, m) ==
    LET authorName == Trim(m.author)
        authors1 == IF HasKey(st.authors, "name", authorName) THEN st.authors
                    ELSE Append(st.authors, [name |-> authorName, lineCount |-> 0])
        commits1 == IF HasKey(st.commits, "sha", m.sha) THEN st.commits
                    ELSE Append(st.commits,
                                [sha |-> m.sha, fileName |-> fileName,
                                 author |-> Trim(m.author), date |-> m.date,
                                 lines |-> <<>>])
        file == Trim(m.file)
        line == [sha |-> m.sha, line |-> m.line - 1,
                 originalLine |-> m.originalLine - 1,
                 originalFileName |->
                     IF ~EndsWith(ToLowerCase(fileName), ToLowerCase(file))
                     THEN file ELSE <<>>]
        c == IndexOfKey(commits1, "sha", m.sha)
    IN  [authors |-> authors1,
         commits |-> [commits1 EXCEPT ![c].lines = Append(@, line)],
         lines |-> Append(st.lines, line)]

\* while ((m = blameMatcher.exec(data)) != null) { ... }
RECURSIVE ScanLoop(_, _, _, _)
ScanLoop(st, fileName, data, lastIndex) ==
    LET r == RegExpExec(data, lastIndex)
    IN  IF r.index = 0 THEN [blame |-> st, lastIndex |-> r.lastIndex]
        ELSE ScanLoop(ScanStep(st, fileName, data[r.index]), fileName, data, r.lastIndex)

\* A faulty variant of CountLines: each commit counts as one line.
RECURSIVE CountLinesOnePerCommit(_, _)
CountLinesOnePerCommit(authors, commits) ==
    IF commits = <<>> THEN authors
    ELSE LET c == Head(commits)
             a == IndexOfKey(authors, "name", c.author)
         IN  CountLinesOnePerCommit([authors EXCEPT ![a].lineCount = @ + 1], Tail(commits))

\* commits.forEach(c => authors.get(c.author).lineCount += c.lines.length)
RECURSIVE CountLines(_, _)
CountLines(authors, commits) ==
    IF commits = <<>> THEN authors
    ELSE LET c == Head(commits)
             a == IndexOfKey(authors, "name", c.author)
         IN  CountLines([authors EXCEPT ![a].lineCount = @ + Len(c.lines)], Tail(commits))

\* The callback of Git.blame(...).then: the model built from data, and where
\* it leaves blameMatcher.lastIndex.
BlameThen(fileName, data, lastIndex) ==
    LET s == ScanLoop(EmptyBlame, fileName, data, lastIndex)
        authors == CountLines(s.blame.authors, s.blame.commits)
    IN  [blame |-> [authors |-> SortDescending(authors, "lineCount"),
                    commits |-> SortDescending(s.blame.commits, "date"),
                    lines |-> s.blame.lines],
         lastIndex |-> s.lastIndex]

\* ------------------------------------------------------- getBlameForRange
\* new Range(startLine, startCharacter, endLine, endCharacter): start is the
\* earlier of the two positions.
NewRange(startLine, startCharacter, endLine, endCharacter) ==
    IF endLine < startLine \/ (endLine = startLine /\ endCharacter < startCharacter)
    THEN [start |-> [line |-> endLine, character |-> endCharacter],
          end |-> [line |-> startLine, character |-> startCharacter]]
    ELSE [start |-> [line |-> startLine, character |-> startCharacter],
          end |-> [line |-> endLine, character |-> endCharacter]]

\* A Range of whole lines.
LineRange(startLine, endLine) == NewRange(startLine, 0, endLine, 0)

LineRanges == {LineRange(a, b) : a, b \in 0..MaxLines}

\* Array.prototype.slice(from, to) for indices that are not negative.
Slice(s, from, to) ==
    SubSeq(s, from + 1, IF to <= Len(s) THEN to ELSE Len(s))

\* c.lines.filter(l => l.line >= range.start.line && l.line <= range.end.line)
RECURSIVE FilterLines(_, _)
FilterLines(lines, rg) ==
    IF lines = <<>> THEN <<>>
    ELSE (IF Head(lines).line >= rg.start.line /\ Head(lines).line <= rg.end.line
          THEN <<Head(lines)>> ELSE <<>>) \o FilterLines(Tail(lines), rg)

\* blame.commits.forEach(c => { ... }) of getBlameForRange: the commits whose
\* sha is among shas, with their lines filtered, and the authors counted.
RECURSIVE RangeCommits(_, _, _, _)
RangeCommits(acc, commits, shas, rg) ==
    IF commits = <<>> THEN acc
    ELSE LET c == Head(commits)
             commit == [c EXCEPT !.lines = FilterLines(c.lines, rg)]
             authors1 == IF HasKey(acc.authors, "name", commit.author) THEN acc.authors
                         ELSE Append(acc.authors, [name |-> commit.author, lineCount |-> 0])
             a == IndexOfKey(authors1, "name", commit.author)
         IN  IF c.sha \notin shas THEN RangeCommits(acc, Tail(commits), shas, rg)
             ELSE RangeCommits(
                      [authors |-> [authors1 EXCEPT ![a].lineCount = @ + Len(commit.lines)],
                       commits |-> Append(acc.commits, commit)],
                      Tail(commits), shas, rg)

\* The rebuild getBlameForRange does when the range is not the whole file.
RangeRebuild(blame, rg) ==
    LET lines == Slice(blame.lines, rg.start.line, rg.end.line + 1)
        shas == {lines[i].sha : i \in 1..Len(lines)}
        r == RangeCommits([authors |-> <<>>, commits |-> <<>>], blame.commits, shas, rg)
    IN  [blame |-> [authors |-> SortDescending(r.authors, "lineCount"),
                    commits |-> r.commits,
                    lines |-> lines],
         cached |-> FALSE, source |-> blame]

\* A faulty variant of GetBlameForRange: no fast path, every range is rebuilt.
GetBlameForRangeNoFastPath(blame, rg) == RangeRebuild(blame, rg)

\* getBlameForRange's callback on the model blame: what it returns, whether
\* that is the cached object itself, and the model it was given as the call
\* leaves it (source): slice, filter and Object.assign({}, ...) make new
\* objects and nothing is written to blame.
GetBlameForRange(blame, rg) ==
    IF Len(blame.lines) = 0 THEN [blame |-> blame, cached |-> TRUE, source |-> blame]
    ELSE IF rg.start.line = 0 /\ rg.end.line = Len(blame.lines) - 1
         THEN [blame |-> blame, cached |-> TRUE, source |-> blame]
         ELSE RangeRebuild(blame, rg)

\* ------------------------------------------------------------- the cache
\* File names as callers spell them.
Paths == {<<"a">>, <<".", "/", "a">>, <<"b">>}

\* Git.normalizePath(fileName, repoPath): the path relative to the
\* repository root; a leading "./" is resolved away.
NormalizePath(fileName) ==
    IF Len(fileName) >= 2 /\ SubSeq(fileName, 1, 2) = <<".", "/">>
    THEN SubSeq(fileName, 3, Len(fileName))
    ELSE fileName

\* The keys _blames can hold.
Keys == {NormalizePath(p) : p \in Paths}

\* What Git.blame resolves with here: a one-line blame, and a header line
\* followed by a blame line.
CacheLine(i) ==
    [match |-> TRUE, width |-> 2, sha |-> "s1", file |-> <<"a">>, originalLine |-> 1,
     author |-> <<"A">>, date |-> 1, line |-> i]

CacheTexts == {<<CacheLine(1)>>, <<NoMatchLine, CacheLine(2)>>}

\* What Git.getCommitMessages can resolve with: lines commitMessageMatcher
\* matches (m[1] sha, m[2] message) or not.
MessageLines ==
    {[match |-> TRUE, width |-> 2, sha |-> "s1", message |-> "m1"],
     [match |-> FALSE, width |-> 0, sha |-> "", message |-> ""]}

MessageTexts == SeqsUpTo(MessageLines, 1)

NoOp == [op |-> "none", fileName |-> <<>>, blame |-> 0, started |-> FALSE,
         stale |-> FALSE, messages |-> <<>>]

NoCalls == [calls |-> 0, started |-> 0, handles |-> {}]

\* A faulty variant of RemoveFile: the name is not normalized before the delete.
RemoveFileRaw(blames, fileName) ==
    [k \in DOMAIN blames |-> IF k = fileName THEN 0 ELSE blames[k]]

\* A faulty variant of RemoveFile: every entry is dropped.
RemoveFileAll(blames, fileName) ==
    [k \in DOMAIN blames |-> 0]

\* _removeFile: _blames after the call.
RemoveFile(blames, fileName) ==
    [k \in DOMAIN blames |-> IF k = NormalizePath(fileName) THEN 0 ELSE blames[k]]

PendingBuild(fileName) ==
    [fileName |-> fileName, state |-> "pending", data |-> <<>>, blame |-> EmptyBlame,
     stale |-> FALSE]

\* A faulty variant of GetBlameForFile: the promise is not recorded in _blames.
GetBlameForFileNoSet(blames, blds, fileName) ==
    LET f == NormalizePath(fileName)
    IN  IF blames[f] # 0
        THEN [blames |-> blames, builds |-> blds, blame |-> blames[f], started |-> FALSE]
        ELSE [blames |-> blames, builds |-> Append(blds, PendingBuild(f)),
              blame |-> Len(blds) + 1, started |-> TRUE]

\* getBlameForFile up to its return: the cached promise, or a new one made by
\* Git.blame(...).then(...) and recorded in _blames before it settles.
GetBlameForFile(blames, blds, fileName) ==
    LET f == NormalizePath(fileName)
    IN  IF blames[f] # 0
        THEN [blames |-> blames, builds |-> blds, blame |-> blames[f], started |-> FALSE]
        ELSE [blames |-> [blames EXCEPT ![f] = Len(blds) + 1],
              builds |-> Append(blds, PendingBuild(f)),
              blame |-> Len(blds) + 1, started |-> TRUE]

\* getCommitMessages' callback: the sha -> message Map, and where it leaves
\* commitMessageMatcher.lastIndex.
RECURSIVE CommitMessagesThen(_, _, _)
CommitMessagesThen(commits, data, lastIndex) ==
    LET r == RegExpExec(data, lastIndex)
        m == data[r.index]
    IN  IF r.index = 0 THEN [commits |-> commits, lastIndex |-> r.lastIndex]
        ELSE CommitMessagesThen(
                 IF HasKey(commits, "sha", m.sha)
                 THEN [commits EXCEPT ![IndexOfKey(commits, "sha", m.sha)].message = m.message]
                 ELSE Append(commits, [sha |-> m.sha, message |-> m.message]),
                 data, r.lastIndex)

CacheInit ==
    /\ _blames = [k \in Keys |-> 0]
    /\ builds = <<>>
    /\ subscribed = TRUE
    /\ blameMatcher = 0
    /\ commitMessageMatcher = 0
    /\ lastOp = NoOp
    /\ since = [k \in Keys |-> NoCalls]

\* A caller calls getBlameForFile(fileName).
CallGetBlameForFile ==
    \E fileName \in Paths :
        LET f == NormalizePath(fileName)
            r == GetBlameForFile(_blames, builds, fileName)
        IN  /\ Len(r.builds) <= MaxBuilds
            /\ _blames' = r.blames
            /\ builds' = r.builds
            /\ lastOp' = [NoOp EXCEPT !.op = "getBlameForFile", !.fileName = fileName,
                                      !.blame = r.blame, !.started = r.started,
                                      !.stale = r.builds[r.blame].stale]
            /\ since' = [since EXCEPT ![f] =
                            [calls |-> IF @.calls < 2 THEN @.calls + 1 ELSE @.calls,
                             started |-> @.started + (IF r.started THEN 1 ELSE 0),
                             handles |-> @.handles \cup {r.blame}]]
            /\ UNCHANGED <<subscribed, blameMatcher, commitMessageMatcher>>
            /\ UNCHANGED <<blameVars, codecVars, remoteVars>>

\* Git.blame resolves with data and the then-callback builds the model.
BlameResolves ==
    \E b \in 1..Len(builds), data \in CacheTexts :
        LET r == BlameThen(builds[b].fileName, data, blameMatcher)
        IN  /\ builds[b].state = "pending"
            /\ builds' = [builds EXCEPT ![b].state = "fulfilled", ![b].data = data,
                                        ![b].blame = r.blame]
            /\ blameMatcher' = r.lastIndex
            /\ lastOp' = [NoOp EXCEPT !.op = "then"]
            /\ UNCHANGED <<_blames, subscribed, commitMessageMatcher, since>>
            /\ UNCHANGED <<blameVars, codecVars, remoteVars>>

\* Git.blame fails: the promise is rejected and the callback never runs.
BlameRejects ==
    \E b \in 1..Len(builds) :
        /\ builds[b].state = "pending"
        /\ builds' = [builds EXCEPT ![b].state = "rejected"]
        /\ lastOp' = [NoOp EXCEPT !.op = "catch"]
        /\ UNCHANGED <<_blames, subscribed, blameMatcher, commitMessageMatcher, since>>
        /\ UNCHANGED <<blameVars, codecVars, remoteVars>>

\* A document is closed or saved: the subscription calls _removeFile.
CallRemoveFile ==
    \E fileName \in Paths :
        LET f == NormalizePath(fileName)
        IN  /\ subscribed
            /\ _blames' = RemoveFile(_blames, fileName)
            /\ builds' = [b \in 1..Len(builds) |->
                             IF builds[b].fileName = f
                             THEN [builds[b] EXCEPT !.stale = TRUE] ELSE builds[b]]
            /\ lastOp' = [NoOp EXCEPT !.op = "_removeFile", !.fileName = fileName]
            /\ since' = [since EXCEPT ![f] = NoCalls]
            /\ UNCHANGED <<subscribed, blameMatcher, commitMessageMatcher>>
            /\ UNCHANGED <<blameVars, codecVars, remoteVars>>

\* dispose(): the cache is cleared and the subscription ended.
CallDispose ==
    /\ subscribed
    /\ _blames' = [k \in Keys |-> 0]
    /\ subscribed' = FALSE
    /\ builds' = [b \in 1..Len(builds) |-> [builds[b] EXCEPT !.stale = TRUE]]
    /\ lastOp' = [NoOp EXCEPT !.op = "dispose"]
    /\ since' = [k \in Keys |-> NoCalls]
    /\ UNCHANGED <<blameMatcher, commitMessageMatcher>>
    /\ UNCHANGED <<blameVars, codecVars, remoteVars>>

\* Git.getCommitMessages resolves with data and the callback parses it.
CommitMessagesResolve ==
    \E data \in MessageTexts :
        LET r == CommitMessagesThen(<<>>, data, commitMessageMatcher)
        IN  /\ commitMessageMatcher' = r.lastIndex
            /\ lastOp' = [NoOp EXCEPT !.op = "getCommitMessages", !.messages = r.commits]
            /\ UNCHANGED <<_blames, builds, subscribed, blameMatcher, since>>
            /\ UNCHANGED <<blameVars, codecVars, remoteVars>>

CacheNext ==
    \/ CallGetBlameForFile
    \/ BlameResolves
    \/ BlameRejects
    \/ CallRemoveFile
    \/ CallDispose
    \/ CommitMessagesResolve

\* No projection made, no other lookup made.
NoProjection == [blame |-> EmptyBlame, cached |-> FALSE]

NoAuthor == [found |-> FALSE, name |-> <<>>, lineCount |-> 0]

NoCommitFound ==
    [found |-> FALSE, sha |-> "", fileName |-> <<>>, author |-> <<>>, date |-> 0,
     lines |-> <<>>]

NoLookup ==
    [op |-> "none", line |-> 0, sha |-> "", thrown |-> FALSE, error |-> "",
     author |-> NoAuthor, commit |-> NoCommitFound, lines |-> <<>>, locations |-> <<>>]

\* The provider at rest, for the specifications that do not use it.
BlameIdle ==
    /\ blameText = <<>>
    /\ stage = "idle"
    /\ model = EmptyBlame
    /\ range = LineRange(0, 0)
    /\ projected = NoProjection
    /\ lookup = NoLookup

\* Git.blame has resolved with some text for the file "a".
BlameInit ==
    /\ blameText \in BlameTexts
    /\ stage = "fetched"
    /\ model = EmptyBlame
    /\ range = LineRange(0, 0)
    /\ projected = NoProjection
    /\ lookup = NoLookup

\* The then-callback of getBlameForFile builds the model.
Build ==
    /\ stage = "fetched"
    /\ LET r == BlameThen(<<"a">>, blameText, blameMatcher)
       IN  /\ model' = r.blame
           /\ blameMatcher' = r.lastIndex
    /\ stage' = "built"
    /\ UNCHANGED <<blameText, range, projected, lookup>>
    /\ UNCHANGED <<_blames, builds, subscribed, commitMessageMatcher, lastOp, since>>
    /\ UNCHANGED <<codecVars, remoteVars>>

\* getBlameForRange is called on the built model.
Project ==
    \E rg \in LineRanges :
        LET r == GetBlameForRange(model, rg)
        IN  /\ stage \in {"built", "projected", "looked"}
            /\ range' = rg
            /\ projected' = [blame |-> r.blame, cached |-> r.cached]
            /\ model' = r.source
            /\ lookup' = NoLookup
            /\ stage' = "projected"
            /\ UNCHANGED blameText
            /\ UNCHANGED <<cacheVars, codecVars, remoteVars>>

BlameNext == Build \/ Project

\* -------------------------------------------- claims on the built model
LineCounts(authors) == [i \in 1..Len(authors) |-> authors[i].lineCount]

CommitSizes(commits) == [i \in 1..Len(commits) |-> Len(commits[i].lines)]

\* C5: in the model built from any text, the authors' lineCounts, the
\* commits' line lists and the model's lines all add up to the same number.
C5_LineCountConservation ==
    stage # "fetched" =>
        /\ SumSeq(LineCounts(model.authors)) = Len(model.lines)
        /\ SumSeq(CommitSizes(model.commits)) = Len(model.lines)

\* A sha carried by two lines with different author names.
C5_Witness ==
    /\ stage = "built"
    /\ Len(model.lines) = 2
    /\ Len(model.commits) = 1
    /\ Len(model.authors) = 2

\* C8: getBlameForRange over [0, lines.length - 1] returns the cached model
\* itself, and an empty model is returned as it is for any range.
C8_FullRangeIdentity ==
    (/\ stage = "projected"
     /\ \/ Len(model.lines) = 0
        \/ (range.start.line = 0 /\ range.end.line = Len(model.lines) - 1))
    => (projected.cached /\ projected.blame = model)

\* The full range of a model of two lines and two commits was projected.
C8_Witness ==
    /\ stage = "projected"
    /\ Len(model.lines) = 2
    /\ Len(model.commits) = 2
    /\ range = LineRange(0, 1)
    /\ projected.blame = model

\* The lines of the text blameMatcher matches, in order.
MatchedBlameLines == SelectIn(blameText, {l \in Elems(blameText) : l.match})

\* Where the scan first met a sha, and an author name.
FirstLineOfSha(sha) ==
    Min({i \in 1..Len(MatchedBlameLines) : MatchedBlameLines[i].sha = sha})

FirstLineOfAuthor(name) ==
    Min({i \in 1..Len(MatchedBlameLines) : Trim(MatchedBlameLines[i].author) = name})

\* Where the rebuild of getBlameForRange first met an author: the first of
\* the returned commits that carries the name.
FirstCommitOfAuthor(commits, name) ==
    Min({i \in 1..Len(commits) : commits[i].author = name})

\* map iterates in non-increasing key order, entries of equal key in
\* increasing order of met(entry).
OrderedBy(map, key, met(_)) ==
    \A i, j \in 1..Len(map) :
        i < j => \/ map[i][key] > map[j][key]
                 \/ (map[i][key] = map[j][key] /\ met(map[i]) < met(map[j]))

FileModelOrdered(blame) ==
    /\ LET met(c) == FirstLineOfSha(c.sha) IN OrderedBy(blame.commits, "date", met)
    /\ LET met(a) == FirstLineOfAuthor(a.name) IN OrderedBy(blame.authors, "lineCount", met)

RangeModelOrdered(blame, source) ==
    /\ LET met(c) == IndexOfKey(source.commits, "sha", c.sha)
       IN  OrderedBy(blame.commits, "date", met)
    /\ LET met(a) == FirstCommitOfAuthor(blame.commits, a.name)
       IN  OrderedBy(blame.authors, "lineCount", met)

\* C11: the model getBlameForFile builds and every model getBlameForRange
\* returns iterate commits by date and authors by lineCount, largest first;
\* entries of equal key iterate in the order they were first met: by the scan
\* of the text in a built model, by the rebuild (which walks the commits of
\* the model it projects, in their order) in a rebuilt one.
C11_DeterministicOrdering ==
    /\ stage \in {"built", "projected"} => FileModelOrdered(model)
    /\ stage = "projected" =>
          IF projected.cached THEN FileModelOrdered(projected.blame)
          ELSE RangeModelOrdered(projected.blame, model)

\* A rebuilt model with two commits of one date and two authors of one
\* lineCount, the later-met author being the first the scan met.
C11_Witness ==
    /\ stage = "projected"
    /\ ~projected.cached
    /\ Len(projected.blame.commits) = 2
    /\ projected.blame.commits[1].date = projected.blame.commits[2].date
    /\ Len(projected.blame.authors) = 2
    /\ projected.blame.authors[1].lineCount = projected.blame.authors[2].lineCount
    /\ Len(model.lines) = 3
    /\ range = LineRange(0, 1)

\* The ranges C15 speaks of: 0 <= start <= end <= lines.length - 1.
RangeWithin(rg, blame) ==
    /\ 0 <= rg.start.line
    /\ rg.start.line <= rg.end.line
    /\ rg.end.line <= Len(blame.lines) - 1

\* C15: for a range within the model's lines, the projected model's authors'
\* lineCounts, its lines and its commits' line lists all add up to
\* end - start + 1, and no returned commit is without lines.
C15_ProjectionConservation ==
    (stage = "projected" /\ RangeWithin(range, model)) =>
        LET p == projected.blame
            n == range.end.line - range.start.line + 1
        IN  /\ SumSeq(LineCounts(p.authors)) = n
            /\ Len(p.lines) = n
            /\ SumSeq(CommitSizes(p.commits)) = n
            /\ \A i \in 1..Len(p.commits) : Len(p.commits[i].lines) >= 1

\* C16: the built model's lines are indexed by their line: lines[i].line = i
\* (sequences here start at 1, lines[] at 0).
C16_PositionalLines ==
    stage \in {"built", "projected"} =>
        \A i \in 1..Len(model.lines) : model.lines[i].line = i - 1

\* Every line's sha is a key of commits, every commit's author a key of
\* authors, and each commit's lines are the model's lines of its sha.
Integrity(blame) ==
    /\ \A i \in 1..Len(blame.lines) : HasKey(blame.commits, "sha", blame.lines[i].sha)
    /\ \A i \in 1..Len(blame.commits) :
          /\ HasKey(blame.authors, "name", blame.commits[i].author)
          /\ blame.commits[i].lines =
                 SelectIn(blame.lines,
                          {l \in Elems(blame.lines) : l.sha = blame.commits[i].sha})

\* C17: the model getBlameForFile builds and every model getBlameForRange
\* returns, for any range, have referential integrity.
C17_ReferentialIntegrity ==
    /\ stage \in {"built", "projected"} => Integrity(model)
    /\ stage = "projected" => Integrity(projected.blame)

\* ------------------------------------------------------------ the uri codec
\* Characters of a file or author name: a plain one and the two a URI gives
\* a meaning after its path.
NameChars == {"x", "#", "?"}

Names == SeqsUpTo(NameChars, MaxNameLen) \ {<<>>}

\* DocumentSchemes.Git and DocumentSchemes.GitBlame (./constants).
DocumentSchemesGit == "git"

DocumentSchemesGitBlame == "gitblame"

\* The decimal digits of a number below 100, as ("" + n) gives them.
Digits(n) == IF n < 10 THEN <<ToString(n)>> ELSE <<ToString(n \div 10), ToString(n % 10)>>

\* pad = n => ("0000000" + n).slice(-("" + commitCount).length)
Pad(n, commitCount) ==
    LET padded == <<"0", "0", "0", "0", "0", "0", "0">> \o Digits(n)
        w == Len(Digits(commitCount))
    IN  SubSeq(padded, Len(padded) - w + 1, Len(padded))

\* JSON.stringify of a string none of whose characters needs an escape.
Quote(str) == <<"\"">> \o str \o <<"\"">>

\* JSON.stringify of a Range: [start, end], as Range.toJSON gives it.
StringifyRange(rg) ==
    <<"[{line:", ToString(rg.start.line), ",character:", ToString(rg.start.character),
      "},{line:", ToString(rg.end.line), ",character:", ToString(rg.end.character), "}]">>

NoRange == NewRange(0, 0, 0, 0)

\* JSON.stringify(data), a sequence of characters and of tokens that hold none
\* of the characters in NameChars.  originalFileName = <<>> and
\* ranged = FALSE stand for a property that is not set.
JSONStringify(d) ==
    <<"{", "fileName:">> \o Quote(d.fileName)
    \o <<",sha:">> \o Quote(<<d.sha>>)
    \o <<",index:", ToString(d.index)>>
    \o (IF d.originalFileName # <<>>
        THEN <<",originalFileName:">> \o Quote(d.originalFileName) ELSE <<>>)
    \o (IF d.ranged THEN <<",range:">> \o StringifyRange(d.range) ELSE <<>>)
    \o <<"}">>

\* Every value JSON.stringify is applied to here.
UriDatas ==
    [fileName : Names, sha : {"s1"}, index : 1..2, originalFileName : Names \cup {<<>>},
     ranged : {FALSE}, range : {NoRange}]
    \cup
    [fileName : Names, sha : {"s1"}, index : 1..2, originalFileName : Names \cup {<<>>},
     ranged : {TRUE}, range : {NewRange(0, 0, 0, 0), NewRange(0, 1, 1, 2)}]

\* JSON.parse(text): the value whose JSON text is text; any other text here is
\* JSON text cut short or with text before it, on which JSON.parse throws.
JSONParse(text) ==
    IF \E d \in UriDatas : JSONStringify(d) = text
    THEN [ok |-> TRUE, data |-> CHOOSE d \in UriDatas : JSONStringify(d) = text]
    ELSE [ok |-> FALSE, data |-> CHOOSE d \in UriDatas : TRUE]

FirstIndexOf(str, cs) == Min({i \in 1..Len(str) : str[i] \in cs} \cup {Len(str) + 1})

\* Uri.parse(value): the scheme ends at the first ":", the path at the first
\* "?" or "#", the query (after a "?") at the first "#"; the rest is the
\* fragment.
UriParse(value) ==
    LET colon == FirstIndexOf(value, {":"})
        rest == SubSeq(value, colon + 1, Len(value))
        p == FirstIndexOf(rest, {"?", "#"})
        afterPath == SubSeq(rest, p, Len(rest))
        hasQuery == afterPath # <<>> /\ Head(afterPath) = "?"
        q == IF hasQuery THEN Tail(afterPath) ELSE <<>>
        h == FirstIndexOf(q, {"#"})
    IN  [scheme |-> SubSeq(value, 1, colon - 1),
         path |-> SubSeq(rest, 1, p - 1),
         query |-> SubSeq(q, 1, h - 1)]

\* dirname, basename and extname of a name without a separator: ".", and the
\* name split before its extension, which _toGitUri puts together again.
PathLabel(fileName, sha) == <<".", "/", sha, ": ">> \o fileName

\* _toGitUri
ToGitUriOf(scheme, commit, commitCount, d) ==
    UriParse(<<scheme, ":">> \o Pad(d.index, commitCount) \o <<". ">> \o commit.author
             \o <<", ", ToString(commit.date), " - ">> \o PathLabel(d.fileName, commit.sha)
             \o <<"?">> \o JSONStringify(d))

\* _toGitUriData
ToGitUriData(commit, index, originalFileName) ==
    [fileName |-> commit.fileName, sha |-> commit.sha, index |-> index,
     originalFileName |-> originalFileName, ranged |-> FALSE, range |-> NoRange]

\* _toGitBlameUriData
ToGitBlameUriData(commit, index, rg, originalFileName) ==
    [ToGitUriData(commit, index, originalFileName) EXCEPT !.ranged = TRUE, !.range = rg]

\* toBlameUri
ToBlameUri(commit, index, commitCount, rg, originalFileName) ==
    ToGitUriOf(DocumentSchemesGitBlame, commit, commitCount,
               ToGitBlameUriData(commit, index, rg, originalFileName))

\* toGitUri
ToGitUri(commit, index, commitCount, originalFileName) ==
    ToGitUriOf(DocumentSchemesGit, commit, commitCount,
               ToGitUriData(commit, index, originalFileName))

\* What a decoder does: it returns data, or throws error.
Returned(d) == [ok |-> TRUE, error |-> "", data |-> d]

Thrown(error) == [ok |-> FALSE, error |-> error, data |-> CHOOSE d \in UriDatas : TRUE]

\* _fromGitUri
FromGitUriOf(uri) ==
    LET r == JSONParse(uri.query)
    IN  IF r.ok THEN Returned(r.data) ELSE Thrown("SyntaxError")

\* A faulty variant of FromBlameUri: the scheme is not checked.
FromBlameUriNoCheck(uri) ==
    LET r == FromGitUriOf(uri)
    IN  IF ~r.ok THEN r
        ELSE IF ~r.data.ranged THEN Thrown("TypeError")
        ELSE Returned([r.data EXCEPT !.range =
                          NewRange(r.data.range.start.line, r.data.range.start.character,
                                   r.data.range.end.line, r.data.range.end.character)])

\* fromBlameUri
FromBlameUri(uri) ==
    IF uri.scheme # <<DocumentSchemesGitBlame>> THEN Thrown("invalid scheme")
    ELSE LET r == FromGitUriOf(uri)
         IN  IF ~r.ok THEN r
             ELSE IF ~r.data.ranged THEN Thrown("TypeError")
             ELSE Returned([r.data EXCEPT !.range =
                               NewRange(r.data.range.start.line, r.data.range.start.character,
                                        r.data.range.end.line, r.data.range.end.character)])

\* fromGitUri
FromGitUri(uri) ==
    IF uri.scheme # <<DocumentSchemesGit>> THEN Thrown("invalid scheme")
    ELSE FromGitUriOf(uri)

\* The commits handed to the codec.
UriCommits ==
    [sha : {"s1"}, fileName : Names, author : [1..1 -> NameChars], date : {1}]

NoCommit == [sha |-> "s1", fileName |-> <<"x">>, author |-> <<"x">>, date |-> 1]

NoUri == [scheme |-> <<>>, path |-> <<>>, query |-> <<>>]

\* The codec at rest, for the specifications that do not use it.
CodecIdle ==
    /\ encoded = [kind |-> "none", commit |-> NoCommit, index |-> 1, commitCount |-> 2,
                  originalFileName |-> <<>>, range |-> NoRange, uri |-> NoUri]
    /\ decoded = [by |-> "none", result |-> Thrown("")]

\* The arguments of an encoding call that is about to be made.
CodecInit ==
    /\ \E commit \in UriCommits, n \in {<<1, 2>>, <<2, 10>>},
          rg \in {NewRange(0, 0, 0, 0), NewRange(0, 1, 1, 2)},
          originalFileName \in Names \cup {<<>>} :
            encoded = [kind |-> "none", commit |-> commit, index |-> n[1],
                       commitCount |-> n[2], originalFileName |-> originalFileName,
                       range |-> rg, uri |-> NoUri]
    /\ decoded = [by |-> "none", result |-> Thrown("")]

\* toGitUri(commit, index, commitCount, originalFileName?)
CallToGitUri ==
    /\ encoded.kind = "none"
    /\ encoded' = [encoded EXCEPT
                      !.kind = "git",
                      !.uri = ToGitUri(encoded.commit, encoded.index, encoded.commitCount,
                                       encoded.originalFileName)]
    /\ UNCHANGED <<decoded, cacheVars, blameVars, remoteVars>>

\* toBlameUri(commit, index, commitCount, range, originalFileName?)
CallToBlameUri ==
    /\ encoded.kind = "none"
    /\ encoded' = [encoded EXCEPT
                      !.kind = "gitblame",
                      !.uri = ToBlameUri(encoded.commit, encoded.index, encoded.commitCount,
                                         encoded.range, encoded.originalFileName)]
    /\ UNCHANGED <<decoded, cacheVars, blameVars, remoteVars>>

\* fromGitUri(uri) on the identifier made last.
CallFromGitUri ==
    /\ encoded.kind # "none"
    /\ decoded' = [by |-> "fromGitUri", result |-> FromGitUri(encoded.uri)]
    /\ UNCHANGED <<encoded, cacheVars, blameVars, remoteVars>>

\* fromBlameUri(uri) on the identifier made last.
CallFromBlameUri ==
    /\ encoded.kind # "none"
    /\ decoded' = [by |-> "fromBlameUri", result |-> FromBlameUri(encoded.uri)]
    /\ UNCHANGED <<encoded, cacheVars, blameVars, remoteVars>>

CodecNext ==
    \/ CallToGitUri
    \/ CallToBlameUri
    \/ CallFromGitUri
    \/ CallFromBlameUri

\* ---------------------------------------------------- claims on the codec
\* The payload the last encoding call was given.
EncodedPayload ==
    [fileName |-> encoded.commit.fileName, sha |-> encoded.commit.sha,
     index |-> encoded.index, originalFileName |-> encoded.originalFileName,
     ranged |-> encoded.kind = "gitblame",
     range |-> IF encoded.kind = "gitblame" THEN encoded.range ELSE NoRange]

SameKind ==
    \/ (decoded.by = "fromGitUri" /\ encoded.kind = "git")
    \/ (decoded.by = "fromBlameUri" /\ encoded.kind = "gitblame")

CrossKind ==
    \/ (decoded.by = "fromGitUri" /\ encoded.kind = "gitblame")
    \/ (decoded.by = "fromBlameUri" /\ encoded.kind = "git")

\* C6: the decoder of an identifier's own kind returns exactly the payload
\* that was encoded: fileName, sha, index, originalFileName when given (and
\* only then), and the range for the ranged kind.
C6_RoundTrip ==
    SameKind => (decoded.result.ok /\ decoded.result.data = EncodedPayload)

\* C7: the decoder of the other kind throws the scheme error and returns
\* nothing, in both directions.
C7_KindMismatch ==
    CrossKind => (~decoded.result.ok /\ decoded.result.error = "invalid scheme")

\* fromBlameUri was applied to an identifier toGitUri made.
C7_Witness ==
    /\ decoded.by = "fromBlameUri"
    /\ encoded.kind = "git"
    /\ encoded.originalFileName # <<>>
    /\ decoded.result.error = "invalid scheme"

\* ------------------------------------------------- lookups on the model
\* The texts the lookups are tried on: per line of the file, a line of commit
\* s1 or of commit s2, or a line blameMatcher does not match; the first line
\* can also be one that s1 took from the file "b".
LookupLines(i) ==
    {l \in BlameLines(i) :
        \/ l.file = <<"a">> /\ <<l.sha, l.author, l.date>> \in
                                  {<<"s1", <<"A">>, 1>>, <<"s2", <<"B">>, 2>>}
        \/ l.file = <<"b">>}

RECURSIVE LookupTextsOfLength(_)
LookupTextsOfLength(n) ==
    IF n = 0 THEN {<<>>}
    ELSE {Append(t, l) : t \in LookupTextsOfLength(n - 1),
                         l \in LookupLines(n) \cup {NoMatchLine}}

LookupTexts == UNION {LookupTextsOfLength(n) : n \in 0..MaxLines}

\* The shas asked for: those a text can hold and one none holds.
LookupShas == Shas \cup {"s3"}

\* Map.prototype.get on commits and on authors: the entry, or undefined
\* (found = FALSE, no property set).
GetCommit(commits, sha) ==
    IF HasKey(commits, "sha", sha)
    THEN LET c == commits[IndexOfKey(commits, "sha", sha)]
         IN  [found |-> TRUE, sha |-> c.sha, fileName |-> c.fileName,
              author |-> c.author, date |-> c.date, lines |-> c.lines]
    ELSE NoCommitFound

GetAuthor(authors, found, name) ==
    IF found /\ HasKey(authors, "name", name)
    THEN LET a == authors[IndexOfKey(authors, "name", name)]
         IN  [found |-> TRUE, name |-> a.name, lineCount |-> a.lineCount]
    ELSE NoAuthor

\* What getBlameForLine does when it reads a property of undefined.
LineTypeError(line) ==
    [NoLookup EXCEPT !.op = "getBlameForLine", !.line = line, !.thrown = TRUE,
                     !.error = "TypeError"]

\* getBlameForLine's callback on the model blame.  blame.lines[line] past the
\* end is undefined and reading its sha throws a TypeError.  The author
\* returned is a new object (Object.assign({}, ...)); source is blame as the
\* call leaves it.
GetBlameForLine(blame, line) ==
    IF line >= Len(blame.lines)
    THEN LineTypeError(line) @@ [source |-> blame]
    ELSE LET blameLine == blame.lines[line + 1]
             commit == GetCommit(blame.commits, blameLine.sha)
             author == GetAuthor(blame.authors, commit.found, commit.author)
         IN  IF ~commit.found
             THEN LineTypeError(line) @@ [source |-> blame]
             ELSE [NoLookup EXCEPT !.op = "getBlameForLine", !.line = line,
                                   !.author = [author EXCEPT
                                                  !.lineCount = Len(commit.lines)],
                                   !.commit = commit,
                                   !.lines = <<blameLine>>]
                  @@ [source |-> blame]

\* lines.filter(l => l.sha === sha)
ShaLines(lines, sha) == SelectIn(lines, {l \in Elems(lines) : l.sha = sha})

\* A faulty variant of GetBlameForShaRange: the lines are assigned to the
\* cached commit itself, Object.assign(blame.commits.get(sha), { lines }).
GetBlameForShaRangeInPlace(blame, sha, rg) ==
    LET lines == ShaLines(Slice(blame.lines, rg.start.line, rg.end.line + 1), sha)
        commit == [GetCommit(blame.commits, sha) EXCEPT !.lines = lines]
        author == GetAuthor(blame.authors, commit.found, commit.author)
    IN  [NoLookup EXCEPT !.op = "getBlameForShaRange", !.sha = sha,
                         !.author = [author EXCEPT !.lineCount = Len(commit.lines)],
                         !.commit = commit,
                         !.lines = lines]
        @@ [source |->
               IF commit.found
               THEN [blame EXCEPT
                        !.commits[IndexOfKey(blame.commits, "sha", sha)].lines = lines]
               ELSE blame]

\* getBlameForShaRange's callback on the model blame.  For a sha that is not
\* a key of commits, Object.assign({}, undefined, { lines }) is a commit with
\* lines only, its author is undefined, and the author returned has a
\* lineCount only; nothing throws.
GetBlameForShaRange(blame, sha, rg) ==
    LET lines == ShaLines(Slice(blame.lines, rg.start.line, rg.end.line + 1), sha)
        commit == [GetCommit(blame.commits, sha) EXCEPT !.lines = lines]
        author == GetAuthor(blame.authors, commit.found, commit.author)
    IN  [NoLookup EXCEPT !.op = "getBlameForShaRange", !.sha = sha,
                         !.author = [author EXCEPT !.lineCount = Len(commit.lines)],
                         !.commit = commit,
                         !.lines = lines]
        @@ [source |-> blame]

RECURSIVE Flatten(_)
Flatten(seqs) == IF seqs = <<>> THEN <<>> ELSE Head(seqs) \o Flatten(Tail(seqs))

\* c.lines.forEach(l => locations.push(new Location(...))) for the i-th commit
LocationsOfCommit(c, i, commitCount, rg) ==
    [k \in 1..Len(c.lines) |->
        [uri |-> ToBlameUri(c, i, commitCount, rg, c.lines[k].originalFileName),
         position |-> [line |-> c.lines[k].originalLine, character |-> 0]]]

\* getBlameLocations' callback on what getBlameForRange returned.
GetBlameLocations(blame, rg) ==
    LET commitCount == Len(blame.commits)
    IN  [NoLookup EXCEPT
            !.op = "getBlameLocations",
            !.locations = Flatten([i \in 1..commitCount |->
                              LocationsOfCommit(blame.commits[i], i, commitCount, rg)])]

\* What a call's result keeps of the record its operator made.
LookupOf(r) == [f \in DOMAIN NoLookup |-> r[f]]

\* Git.blame has resolved with some text for the file "a".
LookupInit ==
    /\ blameText \in LookupTexts
    /\ stage = "fetched"
    /\ model = EmptyBlame
    /\ range = LineRange(0, 0)
    /\ projected = NoProjection
    /\ lookup = NoLookup

\* getBlameForLine is called on the built model.
CallGetBlameForLine ==
    \E line \in 0..MaxLines :
        LET r == GetBlameForLine(model, line)
        IN  /\ stage \in {"built", "projected", "looked"}
            /\ lookup' = LookupOf(r)
            /\ model' = r.source
            /\ projected' = NoProjection
            /\ stage' = "looked"
            /\ UNCHANGED <<blameText, range>>
            /\ UNCHANGED <<cacheVars, codecVars, remoteVars>>

\* getBlameForShaRange is called on the built model.
CallGetBlameForShaRange ==
    \E sha \in LookupShas, rg \in LineRanges :
        LET r == GetBlameForShaRange(model, sha, rg)
        IN  /\ stage \in {"built", "projected", "looked"}
            /\ lookup' = LookupOf(r)
            /\ model' = r.source
            /\ range' = rg
            /\ projected' = NoProjection
            /\ stage' = "looked"
            /\ UNCHANGED blameText
            /\ UNCHANGED <<cacheVars, codecVars, remoteVars>>

\* getBlameLocations is called on the built model: getBlameForRange, then
\* the callback on what it returned.
CallGetBlameLocations ==
    \E rg \in LineRanges :
        LET r == GetBlameForRange(model, rg)
        IN  /\ stage \in {"built", "projected", "looked"}
            /\ range' = rg
            /\ projected' = [blame |-> r.blame, cached |-> r.cached]
            /\ model' = r.source
            /\ lookup' = GetBlameLocations(r.blame, rg)
            /\ stage' = "projected"
            /\ UNCHANGED blameText
            /\ UNCHANGED <<cacheVars, codecVars, remoteVars>>

LookupNext ==
    \/ Build
    \/ Project
    \/ CallGetBlameForLine
    \/ CallGetBlameForShaRange
    \/ CallGetBlameLocations

\* C12: getBlameForLine for an index with no entry in lines, and
\* getBlameForShaRange for a sha that is not a key of commits, throw NotFound.
C12_MissingLookupsNotFound ==
    /\ (lookup.op = "getBlameForLine" /\ lookup.line >= Len(model.lines))
           => (lookup.thrown /\ lookup.error = "NotFound")
    /\ (lookup.op = "getBlameForShaRange" /\ ~HasKey(model.commits, "sha", lookup.sha))
           => (lookup.thrown /\ lookup.error = "NotFound")

\* C18: whatever projections were called, the model is the one the build
\* made from the text: same lines, commits, per-commit lines, authors,
\* lineCounts and orders.
C18_ProjectionKeepsModel ==
    stage \in {"built", "projected", "looked"} =>
        model = BlameThen(<<"a">>, blameText, 0).blame

\* getBlameForShaRange returned fewer lines for a commit than the model holds
\* for it.
C18_Witness ==
    /\ lookup.op = "getBlameForShaRange"
    /\ lookup.commit.found
    /\ Len(lookup.commit.lines) = 1
    /\ Len(GetCommit(model.commits, lookup.sha).lines) = 2
    /\ lookup.author.lineCount = 1

\* ------------------------------------------------------ the remote parser
\* A git url by the alternative of urlRegex that matches it ("other": none),
\* with the host and the path the alternative captures.  A path is a sequence
\* of segments; ".git" and ".git/" are segments of their own.
Url(form, host, path) == [form |-> form, host |-> host, path |-> path]

\* match[9].replace(/\.git\/?$/, '')
StripGit(path) ==
    IF path # <<>> /\ path[Len(path)] \in {".git", ".git/"}
    THEN SubSeq(path, 1, Len(path) - 1) ELSE path

\* parseGitUrl: [scheme, domain, path].  Only the git://, http(s):// and
\* ssh:// alternatives capture a scheme; without one, match[1] || match[3] ||
\* match[6] is undefined.
ParseGitUrl(url) ==
    IF url.form = "other" THEN <<"", <<>>, <<>>>>
    ELSE <<IF url.form \in {"git://", "http://", "https://", "ssh://"}
           THEN url.form ELSE "undefined",
           url.host, StripGit(url.path)>>

\* `${domain}/${path}`
Uniqueness(domain, path) == domain \o <<"/">> \o path

\* A line remoteRegex matches, with its groups: m[1] name, m[2] url, m[3] type.
RemoteLine(name, url, type) ==
    [match |-> TRUE, width |-> 2, name |-> name, url |-> url, type |-> type]

NoRemoteLine ==
    [match |-> FALSE, width |-> 0, name |-> "", url |-> Url("other", <<>>, <<>>),
     type |-> ""]

RemoteLines ==
    {RemoteLine("origin", Url("https://", <<"h">>, <<"p", ".git">>), "fetch"),
     RemoteLine("origin", Url("https://", <<"h">>, <<"p", ".git">>), "push"),
     RemoteLine("upstream", Url("git@", <<"h">>, <<"p", ".git">>), "fetch"),
     RemoteLine("mirror", Url("user@", <<"g">>, <<"p", ".git/">>), "fetch"),
     RemoteLine("origin", Url("https://", <<"h">>, <<"q">>), "fetch"),
     RemoteLine("local", Url("other", <<"x">>, <<>>), "fetch"),
     RemoteLine("backup", Url("other", <<"y">>, <<>>), "push")}

RemoteTexts == SeqsUpTo(RemoteLines \cup {NoRemoteLine}, MaxRemoteLines)

\* The providerFactory arguments tried: one that knows no provider, one that
\* knows the host "h" under the normalized domain "hub", one that throws for
\* the path "q".
Factories == {"none", "known", "throws"}

ProviderFactory(factory, domain, path) ==
    IF factory = "known" /\ domain = <<"h">>
    THEN [kind |-> "provider", domain |-> <<"hub">>, path |-> path]
    ELSE IF factory = "throws" /\ path = <<"q">>
         THEN [kind |-> "throw", domain |-> domain, path |-> path]
         ELSE [kind |-> "undefined", domain |-> domain, path |-> path]

\* One iteration of parse's loop, for the match m: remotes (whose entries
\* groups indexes by uniquenessKey) afterwards, or the throw of
\* providerFactory.
ParseStep(remotes, m, factory) ==
    LET u == ParseGitUrl(m.url)
        uniqueness == Uniqueness(u[2], u[3])
        provider == ProviderFactory(factory, u[2], u[3])
    IN  IF HasKey(remotes, "uniquenessKey", uniqueness)
        THEN [thrown |-> FALSE,
              remotes |-> [remotes EXCEPT
                  ![IndexOfKey(remotes, "uniquenessKey", uniqueness)].types =
                      Append(@, [url |-> m.url, type |-> m.type])]]
        ELSE IF provider.kind = "throw" THEN [thrown |-> TRUE, remotes |-> remotes]
        ELSE [thrown |-> FALSE,
              remotes |-> Append(remotes,
                  [repoPath |-> "repo", uniquenessKey |-> uniqueness, name |-> m.name,
                   scheme |-> u[1], domain |-> provider.domain, path |-> provider.path,
                   provider |-> provider.kind = "provider",
                   types |-> <<[url |-> m.url, type |-> m.type]>>])]

\* do { match = remoteRegex.exec(data); ... } while (match != null)
RECURSIVE ParseLoop(_, _, _, _)
ParseLoop(remotes, data, factory, lastIndex) ==
    LET r == RegExpExec(data, lastIndex)
        step == ParseStep(remotes, data[r.index], factory)
    IN  IF r.index = 0
        THEN [thrown |-> FALSE, remotes |-> remotes, lastIndex |-> r.lastIndex]
        ELSE IF step.thrown
             THEN [thrown |-> TRUE, remotes |-> <<>>, lastIndex |-> r.lastIndex]
             ELSE ParseLoop(step.remotes, data, factory, r.lastIndex)

\* GitRemoteParser.parse(data, repoPath, providerFactory): what it returns or
\* that it threw, and where it leaves remoteRegex.lastIndex.
Parse(data, factory, lastIndex) ==
    IF TextLength(data) = 0
    THEN [thrown |-> FALSE, remotes |-> <<>>, lastIndex |-> lastIndex]
    ELSE ParseLoop(<<>>, data, factory, lastIndex)

RemoteInit ==
    /\ remoteRegex = 0
    /\ parsed = [data |-> <<>>, factory |-> "none", called |-> FALSE, thrown |-> FALSE,
                 remotes |-> <<>>]

\* A caller calls GitRemoteParser.parse.
CallParse ==
    \E d \in RemoteTexts, factory \in Factories :
        LET r == Parse(d, factory, remoteRegex)
        IN  /\ remoteRegex' = r.lastIndex
            /\ parsed' = [data |-> d, factory |-> factory, called |-> TRUE,
                          thrown |-> r.thrown, remotes |-> r.remotes]
            /\ UNCHANGED <<cacheVars, blameVars, codecVars>>

RemoteNext == CallParse

\* -------------------------------------------- claims on the remote parser
\* The listing lines of the last call that remoteRegex matches, in order.
MatchedLines == SelectIn(parsed.data, {l \in Elems(parsed.data) : l.match})

KeyOfLine(l) == Uniqueness(ParseGitUrl(l.url)[2], ParseGitUrl(l.url)[3])

FirstWithKey(lines, k) == lines[Min({i \in 1..Len(lines) : KeyOfLine(lines[i]) = k})]

\* The distinct keys of lines, in the order they first occur.
RECURSIVE KeysInOrder(_, _)
KeysInOrder(lines, seen) ==
    IF lines = <<>> THEN <<>>
    ELSE IF KeyOfLine(Head(lines)) \in seen THEN KeysInOrder(Tail(lines), seen)
         ELSE <<KeyOfLine(Head(lines))>>
              \o KeysInOrder(Tail(lines), seen \cup {KeyOfLine(Head(lines))})

\* C10: a parse call that returns gives one Remote per distinct uniquenessKey
\* of the matched lines of its listing, in first-occurrence order, with the
\* name and scheme of the first line of that key, and one types entry per
\* matched line.
C10_RemoteDeduplication ==
    (parsed.called /\ ~parsed.thrown) =>
        LET rs == parsed.remotes
        IN  /\ [i \in 1..Len(rs) |-> rs[i].uniquenessKey] = KeysInOrder(MatchedLines, {})
            /\ \A i \in 1..Len(rs) :
                  /\ rs[i].name = FirstWithKey(MatchedLines, rs[i].uniquenessKey).name
                  /\ rs[i].scheme =
                         ParseGitUrl(FirstWithKey(MatchedLines, rs[i].uniquenessKey).url)[1]
            /\ SumSeq([i \in 1..Len(rs) |-> Len(rs[i].types)]) = Len(MatchedLines)

\* C13: no Remote a parse call returns was made from, or holds, a line whose
\* url matches none of the shapes of urlRegex; so no two such lines are merged
\* and every Remote's domain and path come from a url that matched.
C13_MalformedSkipped ==
    (parsed.called /\ ~parsed.thrown) =>
        \A i \in 1..Len(parsed.remotes) :
            \A t \in 1..Len(parsed.remotes[i].types) :
                parsed.remotes[i].types[t].url.form # "other"

\* C14: a Remote made from a url git@host:path or user@host:path, with no
\* provider to replace its fields, has what parseGitUrl returned for the url:
\* the scheme "", the domain host, the path without one trailing .git or
\* .git/.
C14_SchemelessUrls ==
    (parsed.called /\ ~parsed.thrown) =>
        \A i \in 1..Len(parsed.remotes) :
            LET r == parsed.remotes[i]
                url == r.types[1].url
            IN  (url.form \in {"git@", "user@"} /\ ~r.provider) =>
                    /\ r.scheme = ""
                    /\ r.domain = url.host
                    /\ r.path = StripGit(url.path)

\* C19: what a parse call does is what it does on its arguments with the
\* scan started at the beginning of data, whatever calls came before.
C19_NoCrossCallState ==
    parsed.called =>
        LET fresh == Parse(parsed.data, parsed.factory, 0)
        IN  /\ parsed.thrown = fresh.thrown
            /\ parsed.remotes = fresh.remotes

\* C20: every Remote returned has the uniquenessKey made of its own domain
\* and path, and no two returned Remotes have the same domain and path.
C20_KeyFieldAgreement ==
    (parsed.called /\ ~parsed.thrown) =>
        LET rs == parsed.remotes
        IN  /\ \A i \in 1..Len(rs) :
                  rs[i].uniquenessKey = Uniqueness(rs[i].domain, rs[i].path)
            /\ \A i, j \in 1..Len(rs) :
                  i # j => <<rs[i].domain, rs[i].path>> # <<rs[j].domain, rs[j].path>>

\* ------------------------------------------------------- specifications
BlameSpecInit == CacheInit /\ BlameInit /\ CodecIdle /\ RemoteInit

BlameSpec == BlameSpecInit /\ [][BlameNext]_vars

CodecSpecInit == CacheInit /\ BlameIdle /\ CodecInit /\ RemoteInit

CodecSpec == CodecSpecInit /\ [][CodecNext]_vars

RemoteSpecInit == CacheInit /\ BlameIdle /\ CodecIdle /\ RemoteInit

RemoteSpec == RemoteSpecInit /\ [][RemoteNext]_vars

LookupSpecInit == CacheInit /\ LookupInit /\ CodecIdle /\ RemoteInit

LookupSpec == LookupSpecInit /\ [][LookupNext]_vars

Init == CacheInit /\ BlameIdle /\ CodecIdle /\ RemoteInit

Next == CacheNext

Spec == Init /\ [][Next]_vars

\* ------------------------------------------------------ claims on the cache
Fulfilled == {b \in 1..Len(builds) : builds[b].state = "fulfilled"}

\* C1: all the getBlameForFile calls made for one key since its entry was
\* last absent, under whatever spelling, started exactly one build between
\* them and were all handed that build's promise, which is the one cached.
C1_Coalescing ==
    \A k \in Keys :
        since[k].calls >= 1 =>
            /\ since[k].started = 1
            /\ _blames[k] # 0
            /\ since[k].handles = {_blames[k]}
            /\ Cardinality({b \in 1..Len(builds) :
                               builds[b].fileName = k /\ ~builds[b].stale}) = 1

\* Two calls under different spellings of one key share a build still pending.
C1_Witness ==
    \E k \in Keys :
        /\ since[k].calls >= 2
        /\ _blames[k] # 0
        /\ builds[_blames[k]].state = "pending"
        /\ lastOp.op = "getBlameForFile"
        /\ lastOp.fileName # k
        /\ NormalizePath(lastOp.fileName) = k

\* C2: no build that existed when its path was invalidated (pending or
\* settled) is in the cache afterwards, and no getBlameForFile call is ever
\* handed one: the first call after the invalidation starts a build and every
\* call after it is served by a build started after it.
C2_InvalidatedNeverReused ==
    /\ \A k \in Keys : _blames[k] # 0 => ~builds[_blames[k]].stale
    /\ lastOp.op = "getBlameForFile" =>
          /\ ~lastOp.stale
          /\ since[NormalizePath(lastOp.fileName)].calls = 1 => lastOp.started

\* A call after an invalidation started a build while the invalidated one is
\* still in flight.
C2_Witness ==
    /\ lastOp.op = "getBlameForFile"
    /\ lastOp.started
    /\ \E b \in 1..Len(builds) :
          /\ builds[b].fileName = NormalizePath(lastOp.fileName)
          /\ builds[b].stale
          /\ builds[b].state = "pending"
          /\ b # lastOp.blame

\* C3: a build whose fetch failed is not left in the cache.
C3_FailedBuildRemoved ==
    \A k \in Keys : _blames[k] # 0 => builds[_blames[k]].state # "rejected"

\* C4: a step that is neither _removeFile of a key nor dispose leaves the
\* key's completed entry and its model as they are, and a getBlameForFile for
\* the key returns that entry and starts nothing.
C4_NoExpiry ==
    [][\A k \in Keys :
          LET b == _blames[k]
          IN  (/\ b # 0
               /\ builds[b].state = "fulfilled"
               /\ lastOp'.op # "dispose"
               /\ ~(lastOp'.op = "_removeFile" /\ NormalizePath(lastOp'.fileName) = k))
              => /\ _blames'[k] = b
                 /\ builds'[b].state = "fulfilled"
                 /\ builds'[b].blame = builds[b].blame
                 /\ (lastOp'.op = "getBlameForFile" /\ NormalizePath(lastOp'.fileName) = k)
                        => (/\ lastOp'.blame = b
                            /\ ~lastOp'.started
                            /\ Len(builds') = Len(builds))]_vars

\* A completed entry is returned again after another path was invalidated.
C4_Witness ==
    /\ lastOp.op = "getBlameForFile"
    /\ ~lastOp.started
    /\ builds[lastOp.blame].state = "fulfilled"
    /\ \E b \in 1..Len(builds) :
          builds[b].stale /\ builds[b].fileName # NormalizePath(lastOp.fileName)

\* C9: every callback finds both matchers at the beginning, so a build's
\* model has one line per matching line of its text, and two builds of one
\* file from the same text have the same model, whatever ran in between.
C9_StatelessScan ==
    /\ \A b \in Fulfilled :
          Len(builds[b].blame.lines) =
              Cardinality({i \in 1..Len(builds[b].data) : builds[b].data[i].match})
    /\ \A b1, b2 \in Fulfilled :
          (builds[b1].fileName = builds[b2].fileName /\ builds[b1].data = builds[b2].data)
              => builds[b1].blame = builds[b2].blame

\* Two builds of one file from the same text, a build from another text, and
\* a commit-message parse have all run.
C9_Witness ==
    /\ \E b1, b2, b3 \in Fulfilled :
          /\ b1 # b2
          /\ builds[b1].fileName = builds[b2].fileName
          /\ builds[b1].data = builds[b2].data
          /\ builds[b3].data # builds[b1].data
    /\ lastOp.op = "getCommitMessages"
    /\ lastOp.messages # <<>>

====
